---------------------------- MODULE Spec2Model ----------------------------
(***************************************************************************)
(* A model of the websocket handshake and framing layer of                 *)
(* golang-websocket-impl (package ws) and of its echo endpoint (main.go).  *)
(*                                                                         *)
(* Bytes are integers 0..255, byte strings are sequences of bytes, a nil   *)
(* slice is the empty sequence (the code never stores an empty non-nil     *)
(* slice in connImpl.buffer).  Go's int is 64 bits wide; every length the  *)
(* model computes with fits in 31 bits, and the one place where the sign   *)
(* bit of the 64-bit int matters (the 8-byte length field) is modelled by  *)
(* its sign.                                                               *)
(***************************************************************************)
EXTENDS Integers, Sequences, FiniteSets, TLC

VARIABLES
  pc,        \* position of the endpoint handler (main.go) or of the API caller
  req,       \* the request's four handshake headers ("" = absent)
  hijackOk,  \* whether the response writer can detach the transport
  respLog,   \* what has been done to the http.ResponseWriter, in order
  upConn,    \* Upgrade returned a non-nil Conn
  upErr,     \* the error Upgrade returned ("" = nil)
  buffer,    \* connImpl.buffer, the leftover payload (<<>> = nil)
  stream,    \* the frames the client sent, as it built them
  inp,       \* bytes the client sent that the server has not read yet
  wbuf,      \* bytes held by the bufio.Writer of c.rw
  werr,      \* the bufio.Writer's sticky error ("" = nil)
  out,       \* bytes the transport accepted from the server
  src,       \* the payload of the Write call under way or last made
  reads,     \* one record per Read call made, in order
  writes,    \* one record per Write call made, in order
  closed,    \* how many times Close was called on the transport
  dst,       \* len(p) of the buffers the caller hands to Read
  shortLeft, \* transport reads that may still come back short
  wleft,     \* transport writes that still succeed (-1: all of them)
  writers,   \* the goroutines inside Write on the one connection
  mu         \* the callers' mutex around Write ("none": they use none)

vars == <<pc, req, hijackOk, respLog, upConn, upErr, buffer, stream, inp,
          wbuf, werr, out, src, reads, writes, closed, dst, shortLeft, wleft,
          writers, mu>>

-----------------------------------------------------------------------------
(* Bounds of the model *)

\* payload lengths of the frames the client sends are 0..MaxPayload
MaxPayload == 3
\* the destination buffers handed to Read have 1..MaxDst bytes
MaxDst == 3
\* the client sends 1..MaxFrames frames and then closes its side
MaxFrames == 2
\* at most MaxShort transport reads of a connection come back short
MaxShort == 1
\* the payload length of the one frame longer than its 4-byte mask key
CyclePayload == 6
\* capacity of the bufio.Writer (4096 in net/http, scaled down)
WBufSize == 4
\* Write calls made by the API caller of SpecWrite
MaxWrites == 2
\* Read calls made by the API caller of SpecLife
MaxCalls == 3

-----------------------------------------------------------------------------
(* Integer helpers: Go's shifts, masks and byte() conversion *)

Min(a, b) == IF a <= b THEN a ELSE b

RECURSIVE Shr(_, _)
\* x >> n for x >= 0
Shr(x, n) == IF n = 0 \/ x = 0 THEN x ELSE Shr(x \div 2, n - 1)

RECURSIVE BitAnd(_, _)
\* a & b for a, b >= 0
BitAnd(a, b) ==
  IF a = 0 \/ b = 0 THEN 0
  ELSE 2 * BitAnd(a \div 2, b \div 2) + (IF a % 2 = 1 /\ b % 2 = 1 THEN 1 ELSE 0)

RECURSIVE BitOr(_, _)
\* a | b for a, b >= 0
BitOr(a, b) ==
  IF a = 0 THEN b
  ELSE IF b = 0 THEN a
  ELSE 2 * BitOr(a \div 2, b \div 2) + (IF a % 2 = 1 \/ b % 2 = 1 THEN 1 ELSE 0)

RECURSIVE BitXor(_, _)
\* a ^ b for a, b >= 0
BitXor(a, b) ==
  IF a = 0 THEN b
  ELSE IF b = 0 THEN a
  ELSE 2 * BitXor(a \div 2, b \div 2) + (IF a % 2 # b % 2 THEN 1 ELSE 0)

\* byte(x) for x >= 0: the low 8 bits
ToByte(x) == x % 256

\* s[from..] as Go's s[from-1:]
Drop(s, n) == SubSeq(s, n + 1, Len(s))

Take(s, n) == SubSeq(s, 1, n)

-----------------------------------------------------------------------------
(* Constants of package ws *)

opCodeContinuation == 0
opCodeText == 1
opCodeBinary == 2
opCodeClose == 8
opCodePing == 9
opCodePong == 10

magicWebsocketGUID == "258EAFA5-E914-47DA-95CA-C5AB0DC85B11"

StatusSwitchingProtocols == 101
StatusBadRequest == 400

\* the errors of package ws and of the transport; "" is nil
ErrNil == ""
ErrConnectionHeader == "missing 'connection' header"
ErrUpgradeHeader == "missing 'upgrade' header"
ErrVersion == "invalid version"
ErrKey == "missing 'sec-websocket-key' header"
ErrHijack == "http: connection cannot be hijacked"
ErrClosed == "connection closed"
ErrUnknownOpcode == "unknown opcode"
ErrEOF == "EOF"
ErrIO == "write: broken pipe"
ErrNetClosed == "use of closed network connection"
\* not an error value: make([]byte, n) with n < 0 panics in Read
Panic == "panic: makeslice: len out of range"

-----------------------------------------------------------------------------
(* getDataFrame: the header of an outgoing frame *)

getDataFrameNoExt(size) ==
  <<BitOr(128, BitAnd(opCodeText, 15)), ToByte(size)>>

getDataFrameLE(size) ==
  LET b0 == BitOr(128, BitAnd(opCodeText, 15)) IN
  IF size <= 125 THEN <<b0, ToByte(size)>>
  ELSE IF size <= 65535
  THEN <<b0, 126, ToByte(BitAnd(size, 255)), ToByte(Shr(size, 8))>>
  ELSE <<b0, 127,
         ToByte(BitAnd(size, 255)), ToByte(Shr(size, 8)),
         ToByte(Shr(size, 16)), ToByte(Shr(size, 24)),
         ToByte(Shr(size, 32)), ToByte(Shr(size, 40)),
         ToByte(Shr(size, 48)), ToByte(Shr(size, 56))>>

getDataFrame(size) ==
  LET b0 == BitOr(128, BitAnd(opCodeText, 15)) IN
  IF size <= 125 THEN <<b0, ToByte(size)>>
  ELSE IF size <= 65535
  THEN <<b0, 126, ToByte(Shr(size, 8)), ToByte(BitAnd(size, 255))>>
  ELSE <<b0, 127,
         ToByte(Shr(size, 56)), ToByte(Shr(size, 48)),
         ToByte(Shr(size, 40)), ToByte(Shr(size, 32)),
         ToByte(Shr(size, 24)), ToByte(Shr(size, 16)),
         ToByte(Shr(size, 8)), ToByte(BitAnd(size, 255))>>

-----------------------------------------------------------------------------
(* c.rw's writer: a bufio.Writer of WBufSize bytes over the transport.     *)
(* A writer state is [buf, err, out, left]: left is the number of          *)
(* transport writes that still succeed (-1: all of them).                  *)

\* conn.Write(b): the transport takes all of b or fails taking none
TWrite(w, b) ==
  IF w.left = 0
  THEN [w EXCEPT !.err = ErrIO]
  ELSE [w EXCEPT !.out = w.out \o b,
                 !.left = IF w.left > 0 THEN w.left - 1 ELSE w.left]

\* bufio.Writer.Flush
BufFlush(w) ==
  IF w.err # ErrNil \/ w.buf = <<>> THEN w
  ELSE LET t == TWrite([w EXCEPT !.buf = <<>>], w.buf) IN
       IF t.err # ErrNil THEN [t EXCEPT !.buf = w.buf] ELSE t

RECURSIVE BufWriteLoop(_, _, _)
\* the loop of bufio.Writer.Write(p); nn counts the bytes taken from p
BufWriteLoop(w, p, nn) ==
  IF Len(p) > WBufSize - Len(w.buf) /\ w.err = ErrNil
  THEN IF w.buf = <<>>
       THEN LET t == TWrite(w, p) IN
            IF t.err # ErrNil THEN BufWriteLoop(t, p, nn)
            ELSE BufWriteLoop(t, <<>>, nn + Len(p))
       ELSE LET n == Min(WBufSize - Len(w.buf), Len(p)) IN
            BufWriteLoop(BufFlush([w EXCEPT !.buf = w.buf \o Take(p, n)]),
                         Drop(p, n), nn + n)
  ELSE IF w.err # ErrNil THEN [w |-> w, n |-> nn, err |-> w.err]
  ELSE [w |-> [w EXCEPT !.buf = w.buf \o p], n |-> nn + Len(p), err |-> ErrNil]

\* bufio.Writer.Write(p): [w: the writer afterwards, n, err]
BufWrite(w, p) == BufWriteLoop(w, p, 0)

-----------------------------------------------------------------------------
(* connImpl.Write *)

\* [w, n, err, step]: step is the last call made, 1 header, 2 payload, 3 flush
WriteNoFlush(w, p) ==
  LET h == BufWrite(w, getDataFrame(Len(p))) IN
  IF h.err # ErrNil THEN [w |-> h.w, n |-> 0, err |-> h.err, step |-> 1]
  ELSE LET b == BufWrite(h.w, p) IN
       IF b.err # ErrNil THEN [w |-> b.w, n |-> 0, err |-> b.err, step |-> 2]
       ELSE [w |-> b.w, n |-> b.n, err |-> ErrNil, step |-> 3]

WritePayloadFirst(w, p) ==
  LET b == BufWrite(w, p) IN
  IF b.err # ErrNil THEN [w |-> b.w, n |-> 0, err |-> b.err, step |-> 1]
  ELSE LET h == BufWrite(b.w, getDataFrame(Len(p))) IN
       IF h.err # ErrNil THEN [w |-> h.w, n |-> 0, err |-> h.err, step |-> 2]
       ELSE LET f == BufFlush(h.w) IN
            [w |-> f, n |-> b.n, err |-> f.err, step |-> 3]

Write(w, p) ==
  LET h == BufWrite(w, getDataFrame(Len(p))) IN
  IF h.err # ErrNil THEN [w |-> h.w, n |-> 0, err |-> h.err, step |-> 1]
  ELSE LET b == BufWrite(h.w, p) IN
       IF b.err # ErrNil THEN [w |-> b.w, n |-> 0, err |-> b.err, step |-> 2]
       ELSE LET f == BufFlush(b.w) IN
            [w |-> f, n |-> b.n, err |-> f.err, step |-> 3]

\* the three calls Write makes on c.rw, one at a time
WriteHeaderStep(w, p) == BufWrite(w, getDataFrame(Len(p)))
WritePayloadStep(w, p) == BufWrite(w, p)
\* Write that returns without flushing
WriteFlushSkip(w) == w
WriteFlushStep(w) == BufFlush(w)

-----------------------------------------------------------------------------
(* The transport's read side.  c.rw.Read(b) is bufio.Reader.Read: it       *)
(* returns what one read of the connection delivers, at least one byte and *)
(* at most len(b), or an error when the client has closed its side.  The   *)
(* model lets it return fewer bytes than are still to come while budget,   *)
(* the connection's number of such reads left, is positive.                *)

\* the results [n, err] a read of k bytes can have when in is still to come
TReadFull(in, k, budget) ==
  IF k = 0 THEN {[n |-> 0, err |-> ErrNil]}
  ELSE IF in = <<>> THEN {[n |-> 0, err |-> ErrEOF]}
  ELSE {[n |-> Min(k, Len(in)), err |-> ErrNil]}

TRead(in, k, budget) ==
  IF k = 0 THEN {[n |-> 0, err |-> ErrNil]}
  ELSE IF in = <<>> THEN {[n |-> 0, err |-> ErrEOF]}
  ELSE LET m == Min(k, Len(in)) IN
       {[n |-> j, err |-> ErrNil] : j \in (IF budget > 0 THEN 1..m ELSE {m})}

\* make([]byte, k) after a read that stored n bytes of in into it
Fill(in, k, n) == [i \in 1..k |-> IF i <= n THEN in[i] ELSE 0]

-----------------------------------------------------------------------------
(* connImpl.Read.  An outcome is                                           *)
(*   [n, err, data, inp, buffer, reply, short, hdrs, op, payload]          *)
(* n, err: what Read returns; data: the bytes copied into p; inp, buffer:  *)
(* the transport's unread bytes and c.buffer afterwards; reply: the bytes  *)
(* the call wrote to the transport (it writes none); and, for the          *)
(* properties: short (a transport read stored fewer bytes than the slice   *)
(* it was given), hdrs (frame headers parsed by this call), op (opcode of  *)
(* the last header parsed, -1 if none), payload (the unmasked payload      *)
(* slice of the data frame decoded by this call, <<>> if none).            *)

\* the largest length the model represents; a larger one is TooLarge
TooLarge == 2147483646 + 1

Outcome(n, err, data, in, buf, g, payload) ==
  [n |-> n, err |-> err, data |-> data, inp |-> in, buffer |-> buf,
   reply |-> g.reply,
   budget |-> g.budget, short |-> g.short, hdrs |-> g.hdrs, op |-> g.op, payload |-> payload]

\* a ghost record after a transport read of k bytes that returned r
Seen(g, k, r, in) ==
  [g EXCEPT !.short = g.short \/ (r.err = ErrNil /\ r.n < k),
            !.budget = IF r.err = ErrNil /\ r.n < Min(k, Len(in))
                       THEN g.budget - 1 ELSE g.budget]

\* the 2-byte length read low byte first
DecodeLen16LE(b) == BitOr(b[2] * 256, b[1])

\* int(payload[0])<<0x08 | int(payload[1])
DecodeLen16(b) == BitOr(b[1] * 256, b[2])

\* the 8-byte big-endian length as a 64-bit int: negative (-1 stands for
\* every negative value) when the top bit is set
DecodeLen64(b) ==
  IF b[1] >= 128 THEN -1
  ELSE IF b[1] # 0 \/ b[2] # 0 \/ b[3] # 0 \/ b[4] # 0 \/ b[5] >= 128 THEN TooLarge
  ELSE BitOr(BitOr(b[5] * 16777216, b[6] * 65536), BitOr(b[7] * 256, b[8]))

\* payload[i] ^= mask[i%4]
UnmaskNoCycle(payload, mask) ==
  [i \in 1..Len(payload) |-> BitXor(payload[i], mask[1])]

Unmask(payload, mask) ==
  [i \in 1..Len(payload) |-> BitXor(payload[i], mask[((i - 1) % 4) + 1])]

\* lines 175-185: hand the payload to the caller, keep what does not fit
DeliverDropRest(payload, D, in, g) ==
  IF Len(payload) > D
  THEN Outcome(D, ErrNil, Take(payload, D), in, <<>>, g, payload)
  ELSE Outcome(Len(payload), ErrNil, payload, in, <<>>, g, payload)

Deliver(payload, D, in, g) ==
  IF Len(payload) > D
  THEN Outcome(D, ErrNil, Take(payload, D), in, Drop(payload, D), g, payload)
  ELSE Outcome(Len(payload), ErrNil, payload, in, <<>>, g, payload)

\* lines 163-173: read the payload and unmask it
ReadPayload(plen, mask, in, D, g) ==
  IF plen < 0 \/ plen = TooLarge
  THEN {Outcome(0, Panic, <<>>, in, <<>>, g, <<>>)}
  ELSE UNION {
    IF r.err # ErrNil
    THEN {Outcome(0, r.err, <<>>, in, <<>>, g, <<>>)}
    ELSE {Deliver(Unmask(Fill(in, plen, r.n), mask), D, Drop(in, r.n),
                  Seen(g, plen, r, in))}
    : r \in TRead(in, plen, g.budget)}

\* lines 155-161: read the mask key
ReadMask(plen, in, D, g) ==
  UNION {
    IF r.err # ErrNil
    THEN {Outcome(0, r.err, <<>>, in, <<>>, g, <<>>)}
    ELSE ReadPayload(plen, Fill(in, 4, r.n), Drop(in, r.n), D, Seen(g, 4, r, in))
    : r \in TRead(in, 4, g.budget)}

\* lines 133-153: the extended length of a text or binary frame
ReadLength(len7, in, D, g) ==
  IF len7 = 126 \/ len7 = 127
  THEN LET k == IF len7 = 126 THEN 2 ELSE 8 IN
       UNION {
         IF r.err # ErrNil
         THEN {Outcome(0, r.err, <<>>, in, <<>>, g, <<>>)}
         ELSE ReadMask(IF len7 = 126 THEN DecodeLen16(Fill(in, k, r.n))
                                     ELSE DecodeLen64(Fill(in, k, r.n)),
                       Drop(in, r.n), D, Seen(g, k, r, in))
         : r \in TRead(in, k, g.budget)}
  ELSE ReadMask(len7, in, D, g)

RECURSIVE ReadFrames(_, _, _)

\* the loop with an opcode dispatch that takes every opcode it does not
\* know for a data frame
ReadFramesLax(in, D, g) ==
  UNION {
    IF r.err # ErrNil
    THEN {Outcome(0, r.err, <<>>, in, <<>>, g, <<>>)}
    ELSE LET frame == Fill(in, 2, r.n)
             rest == Drop(in, r.n)
             opCode == BitAnd(frame[1], 15)
             payloadLength == BitAnd(frame[2], 127)
             h == [Seen(g, 2, r, in) EXCEPT !.hdrs = g.hdrs + 1, !.op = opCode]
         IN  IF opCode \in {opCodePing, opCodePong}
             THEN ReadFrames(rest, D, h)
             ELSE IF opCode = opCodeClose
             THEN {Outcome(0, ErrClosed, <<>>, rest, <<>>, h, <<>>)}
             ELSE ReadLength(payloadLength, rest, D, h)
    : r \in TRead(in, 2, g.budget)}

\* the loop with the close case folded into the default case
ReadFramesCloseAsUnknown(in, D, g) ==
  UNION {
    IF r.err # ErrNil
    THEN {Outcome(0, r.err, <<>>, in, <<>>, g, <<>>)}
    ELSE LET frame == Fill(in, 2, r.n)
             rest == Drop(in, r.n)
             opCode == BitAnd(frame[1], 15)
             payloadLength == BitAnd(frame[2], 127)
             h == [Seen(g, 2, r, in) EXCEPT !.hdrs = g.hdrs + 1, !.op = opCode]
         IN  IF opCode \in {opCodeText, opCodeBinary}
             THEN ReadLength(payloadLength, rest, D, h)
             ELSE IF opCode \in {opCodePing, opCodePong}
             THEN ReadFrames(rest, D, h)
             ELSE {Outcome(0, ErrUnknownOpcode, <<>>, rest, <<>>, h, <<>>)}
    : r \in TRead(in, 2, g.budget)}

\* lines 119-193: the loop over frame headers, from a connection whose
\* leftover buffer is nil
ReadFrames(in, D, g) ==
  UNION {
    IF r.err # ErrNil
    THEN {Outcome(0, r.err, <<>>, in, <<>>, g, <<>>)}
    ELSE LET frame == Fill(in, 2, r.n)
             rest == Drop(in, r.n)
             opCode == BitAnd(frame[1], 15)
             payloadLength == BitAnd(frame[2], 127)
             h == [Seen(g, 2, r, in) EXCEPT !.hdrs = g.hdrs + 1, !.op = opCode]
         IN  IF opCode \in {opCodeText, opCodeBinary}
             THEN ReadLength(payloadLength, rest, D, h)
             ELSE IF opCode \in {opCodePing, opCodePong}
             THEN ReadFrames(rest, D, h)
             ELSE IF opCode = opCodeClose
             THEN {Outcome(0, ErrClosed, <<>>, rest, <<>>, h, <<>>)}
             ELSE {Outcome(0, ErrUnknownOpcode, <<>>, rest, <<>>, h, <<>>)}
    : r \in TRead(in, 2, g.budget)}

Ghost(budget) ==
  [short |-> FALSE, hdrs |-> 0, op |-> -1, reply |-> <<>>, budget |-> budget]

\* lines 107-117: serve the leftover buffer
ReadLeftover(buf, in, D, budget) ==
  LET n == Min(D, Len(buf)) IN
  Outcome(n, ErrNil, Take(buf, n), in,
          IF n = Len(buf) THEN <<>> ELSE Drop(buf, n), Ghost(budget), <<>>)

\* Read with the leftover branch missing
ReadIgnoreLeftover(buf, in, D, budget) == ReadFrames(in, D, Ghost(budget))

\* the outcomes of c.Read(p) with len(p) = D
Read(buf, in, D, budget) ==
  IF buf # <<>> THEN {ReadLeftover(buf, in, D, budget)}
  ELSE ReadFrames(in, D, Ghost(budget))

-----------------------------------------------------------------------------
(* Upgrade and hashKey *)

Key1 == "dGhlIHNhbXBsZSBub25jZQ=="
Key2 == "x3JJHMbDL1EzLkh9GBhXDw=="

\* base64(sha1(key + magicWebsocketGUID)), tabulated for the keys of the
\* model and left as a term elsewhere
hashKey(key) ==
  CASE key = Key1 -> "s3pPLMBiTxaQ9kYGzzhZRbK+xOo="
    [] key = Key2 -> "HSmrc0sMlYUkAGmm5OPpG2HaGWk="
    [] OTHER -> "base64(sha1(" \o key \o magicWebsocketGUID \o "))"

SetHeader(name, value) == <<"Header.Set", name, value>>
WriteHeader(code) == <<"WriteHeader", code>>
Hijack(ok) == <<"Hijack", ok>>
WriteBody(text) == <<"Write", text>>

\* the response of a successful validation, lines 64-73
Respond101(r) ==
  << SetHeader("Upgrade", "websocket"),
     SetHeader("Connection", "Upgrade"),
     SetHeader("Sec-WebSocket-Accept", hashKey(r.key)),
     WriteHeader(StatusSwitchingProtocols),
     Hijack(TRUE) >>

\* Upgrade with the version check after the key check
UpgradeKeyFirst(r, canHijack) ==
  IF r.connection # "Upgrade"
  THEN [conn |-> FALSE, err |-> ErrConnectionHeader, log |-> <<>>]
  ELSE IF r.upgrade # "websocket"
  THEN [conn |-> FALSE, err |-> ErrUpgradeHeader, log |-> <<>>]
  ELSE IF r.key = ""
  THEN [conn |-> FALSE, err |-> ErrKey, log |-> <<>>]
  ELSE IF r.version # "13"
  THEN [conn |-> FALSE, err |-> ErrVersion, log |-> <<>>]
  ELSE IF canHijack
  THEN [conn |-> TRUE, err |-> ErrNil, log |-> Respond101(r)]
  ELSE [conn |-> FALSE, err |-> ErrHijack,
        log |-> Take(Respond101(r), 4) \o <<Hijack(FALSE)>>]

\* Upgrade that answers before it validates the key
UpgradeEarlyHeaders(r, canHijack) ==
  IF r.connection # "Upgrade"
  THEN [conn |-> FALSE, err |-> ErrConnectionHeader, log |-> <<>>]
  ELSE IF r.upgrade # "websocket"
  THEN [conn |-> FALSE, err |-> ErrUpgradeHeader, log |-> <<>>]
  ELSE IF r.version # "13"
  THEN [conn |-> FALSE, err |-> ErrVersion, log |-> <<>>]
  ELSE IF r.key = ""
  THEN [conn |-> FALSE, err |-> ErrKey, log |-> Take(Respond101(r), 2)]
  ELSE IF canHijack
  THEN [conn |-> TRUE, err |-> ErrNil, log |-> Respond101(r)]
  ELSE [conn |-> FALSE, err |-> ErrHijack,
        log |-> Take(Respond101(r), 4) \o <<Hijack(FALSE)>>]

\* Upgrade that detaches the transport before it writes the status
UpgradeHijackFirst(r, canHijack) ==
  IF r.connection # "Upgrade"
  THEN [conn |-> FALSE, err |-> ErrConnectionHeader, log |-> <<>>]
  ELSE IF r.upgrade # "websocket"
  THEN [conn |-> FALSE, err |-> ErrUpgradeHeader, log |-> <<>>]
  ELSE IF r.version # "13"
  THEN [conn |-> FALSE, err |-> ErrVersion, log |-> <<>>]
  ELSE IF r.key = ""
  THEN [conn |-> FALSE, err |-> ErrKey, log |-> <<>>]
  ELSE IF canHijack
  THEN [conn |-> TRUE, err |-> ErrNil,
        log |-> Take(Respond101(r), 3) \o
                <<Hijack(TRUE), WriteHeader(StatusSwitchingProtocols)>>]
  ELSE [conn |-> FALSE, err |-> ErrHijack,
        log |-> Take(Respond101(r), 3) \o <<Hijack(FALSE)>>]

\* Upgrade(w, r): [conn: a Conn is returned, err, log: what it did to w]
Upgrade(r, canHijack) ==
  IF r.connection # "Upgrade"
  THEN [conn |-> FALSE, err |-> ErrConnectionHeader, log |-> <<>>]
  ELSE IF r.upgrade # "websocket"
  THEN [conn |-> FALSE, err |-> ErrUpgradeHeader, log |-> <<>>]
  ELSE IF r.version # "13"
  THEN [conn |-> FALSE, err |-> ErrVersion, log |-> <<>>]
  ELSE IF r.key = ""
  THEN [conn |-> FALSE, err |-> ErrKey, log |-> <<>>]
  ELSE IF canHijack
  THEN [conn |-> TRUE, err |-> ErrNil, log |-> Respond101(r)]
  ELSE [conn |-> FALSE, err |-> ErrHijack,
        log |-> Take(Respond101(r), 4) \o <<Hijack(FALSE)>>]

\* http.Error(w, msg, code) as the handler calls it
HttpError(msg, code) ==
  << SetHeader("Content-Type", "text/plain; charset=utf-8"),
     SetHeader("X-Content-Type-Options", "nosniff"),
     WriteHeader(code),
     WriteBody(msg \o "\n") >>

-----------------------------------------------------------------------------
(* The client.  A websocket client sends frames with a length field of one *)
(* of the three widths, a 4-byte mask key and the payload XORed with the   *)
(* key; the model also builds what a client should not send: a frame       *)
(* without mask key, a cleared final bit, an 8-byte length with its top    *)
(* bit set.                                                                *)

\* the first n letters 'A', 'B', ... as payload bytes
Pattern(n) == [i \in 1..n |-> 65 + ((i - 1) % 26)]

\* the client's masking of a payload
Mask(payload, key) ==
  [i \in 1..Len(payload) |-> BitXor(payload[i], key[((i - 1) % 4) + 1])]

RECURSIVE BigEndian(_, _)
\* n as k big-endian bytes, for n < 2^31
BigEndian(n, k) ==
  IF k = 0 THEN <<>> ELSE Append(BigEndian(n \div 256, k - 1), n % 256)

\* a frame as the client builds it.  key = <<>>: an unmasked frame;
\* top: the top bit of the 8-byte length field is set
ClientFrame(op, fin, width, len, key, top) ==
  LET payload == Pattern(len)
      ext == IF width = 7 THEN <<>>
             ELSE IF width = 16 THEN BigEndian(len, 2)
             ELSE IF top THEN <<128>> \o BigEndian(len, 7)
             ELSE BigEndian(len, 8)
      ind == IF width = 7 THEN len ELSE IF width = 16 THEN 126 ELSE 127
      b0 == (IF fin THEN 128 ELSE 0) + op
      b1 == (IF key # <<>> THEN 128 ELSE 0) + ind
  IN  [op |-> op, fin |-> fin, width |-> width, len |-> len, key |-> key,
       top |-> top, payload |-> payload,
       bytes |-> <<b0, b1>> \o ext \o key
                 \o (IF key # <<>> THEN Mask(payload, key) ELSE payload)]

ZeroKey == <<0, 0, 0, 0>>
SampleKey == <<55, 250, 33, 61>>

DataOps == {opCodeText, opCodeBinary}
ControlOps == {opCodeClose, opCodePing, opCodePong}
OtherOps == (0..15) \ (DataOps \cup ControlOps)

\* the frames of the endpoint's clients
FrameSet ==
  { ClientFrame(opCodeText, TRUE, 7, MaxPayload, SampleKey, FALSE),
    ClientFrame(opCodeText, TRUE, 16, 1, SampleKey, FALSE),
    ClientFrame(opCodeBinary, TRUE, 7, 2, SampleKey, FALSE),
    ClientFrame(opCodePing, TRUE, 7, 0, SampleKey, FALSE),
    ClientFrame(opCodePong, TRUE, 7, 1, SampleKey, FALSE),
    ClientFrame(opCodeClose, TRUE, 7, 0, SampleKey, FALSE),
    ClientFrame(3, TRUE, 7, 0, SampleKey, FALSE),
    ClientFrame(opCodeText, TRUE, 64, 1, SampleKey, TRUE) }

\* the frames of the single-frame specification: every opcode, both values
\* of the final bit, every width, masked with either key or not masked, and
\* one frame whose payload is longer than the key
SingleFrames ==
  { ClientFrame(opCodeBinary, TRUE, 7, CyclePayload, SampleKey, FALSE) } \cup
  { ClientFrame(o, fin, w, l, k, FALSE) :
      o \in DataOps, fin \in BOOLEAN, w \in {7, 16, 64}, l \in 0..MaxPayload,
      k \in {ZeroKey, SampleKey, <<>>} }
  \cup { ClientFrame(o, fin, 7, l, SampleKey, FALSE) :
      o \in (0..15) \ DataOps, fin \in BOOLEAN, l \in 0..1 }
  \cup { ClientFrame(o, TRUE, 64, l, SampleKey, TRUE) : o \in DataOps, l \in 0..1 }

RECURSIVE Streams(_)
\* the sequences of 1..n frames of FrameSet
Streams(n) ==
  IF n = 0 THEN {}
  ELSE { <<f>> : f \in FrameSet }
       \cup { Append(t, f) : t \in Streams(n - 1), f \in FrameSet }

RECURSIVE Wire(_)
\* the bytes of a sequence of frames
Wire(fs) == IF fs = <<>> THEN <<>> ELSE fs[1].bytes \o Wire(Tail(fs))

-----------------------------------------------------------------------------
(* The echo endpoint of main.go *)

Values == [connection : {"Upgrade", "", "keep-alive"},
           upgrade : {"websocket", "", "h2c"},
           version : {"13", "", "8"},
           key : {Key1, Key2, ""}]

\* a connection nothing has happened to yet
Fresh ==
  /\ buffer = <<>>
  /\ wbuf = <<>>
  /\ werr = ErrNil
  /\ out = <<>>
  /\ src = <<>>
  /\ reads = <<>>
  /\ writes = <<>>
  /\ closed = 0
  /\ writers = <<>>
  /\ mu = "none"

Init ==
  /\ pc = "request"
  /\ req \in Values
  /\ hijackOk \in BOOLEAN
  /\ respLog = <<>>
  /\ upConn = FALSE
  /\ upErr = ErrNil
  /\ Fresh
  /\ stream = <<>>
  /\ inp = <<>>
  /\ dst = 0
  /\ shortLeft = 0
  /\ wleft = -1

\* main.go:19: conn, err := ws.Upgrade(w, r)
CallUpgrade ==
  /\ pc = "request"
  /\ LET u == Upgrade(req, hijackOk) IN
     /\ upConn' = u.conn
     /\ upErr' = u.err
     /\ respLog' = respLog \o u.log
  /\ pc' = "upgraded"
  /\ UNCHANGED <<req, hijackOk, buffer, stream, inp, wbuf, werr, out, src,
                 reads, writes, closed, dst, shortLeft, wleft,
                 writers, mu>>

\* main.go:21-26: the handler answers a failed Upgrade and returns
HandlerError ==
  /\ pc = "upgraded"
  /\ upErr # ErrNil
  /\ respLog' = respLog \o HttpError(upErr, StatusBadRequest)
  /\ pc' = "done"
  /\ UNCHANGED <<req, hijackOk, upConn, upErr, buffer, stream, inp, wbuf,
                 werr, out, src, reads, writes, closed, dst, shortLeft, wleft,
                 writers, mu>>

\* main.go:28-33: the handler keeps the connection, defers its Close and
\* enters the loop.  Its buffers have dst bytes (512 in main.go, scaled
\* down); the transport's behaviour towards this connection is fixed here
HandlerConnected ==
  /\ pc = "upgraded"
  /\ upErr = ErrNil
  /\ pc' = "read"
  /\ dst' \in 1..MaxDst
  /\ shortLeft' \in 0..MaxShort
  /\ wleft' \in {-1, 0, 1}
  /\ UNCHANGED <<req, hijackOk, respLog, upConn, upErr, buffer, stream, inp,
                 wbuf, werr, out, src, reads, writes, closed,
                 writers, mu>>

\* the client sends its frames and closes its side
ClientSends ==
  /\ pc = "read"
  /\ stream = <<>>
  /\ \E fs \in Streams(MaxFrames) :
       /\ stream' = fs
       /\ inp' = Wire(fs)
  /\ UNCHANGED <<pc, req, hijackOk, respLog, upConn, upErr, buffer, wbuf,
                 werr, out, src, reads, writes, closed, dst, shortLeft, wleft,
                 writers, mu>>

\* connImpl.Close: c.conn.Close(); closed counts the calls
Close(c) == c + 1

\* the deferred Close that runs on only some of the ways out of the loop
LoopExitOnEOFOnly(err, c) == IF err = ErrEOF THEN Close(c) ELSE c

\* main.go:30, 37-40: the loop is left on whatever Read returned as error
\* (or on its panic) and the deferred conn.Close() runs as the handler ends
LoopExit(err, c) == Close(c)

\* what the model keeps of a Read call
ReadRecord(D, o, buf0, in0) ==
  [D |-> D, n |-> o.n, err |-> o.err, data |-> o.data, budget0 |-> shortLeft,
   closed0 |-> closed,
   buffer0 |-> buf0, inp0 |-> in0, inp1 |-> o.inp, reply |-> o.reply,
   short |-> o.short, hdrs |-> o.hdrs, op |-> o.op, payload |-> o.payload]

\* main.go:32-40: one Read of the loop; on an error (or a panic) the handler
\* leaves the loop and the deferred Close runs
LoopRead ==
  /\ pc = "read"
  /\ stream # <<>>
  /\ \E o \in Read(buffer, inp, dst, shortLeft) :
       /\ buffer' = o.buffer
       /\ inp' = o.inp
       /\ shortLeft' = o.budget
       /\ out' = out \o o.reply
       /\ reads' = Append(reads, ReadRecord(dst, o, buffer, inp))
       /\ IF o.err = ErrNil
          THEN /\ src' = o.data
               /\ pc' = "write"
               /\ closed' = closed
          ELSE /\ src' = src
               /\ pc' = "done"
               /\ closed' = LoopExit(o.err, closed)
  /\ UNCHANGED <<req, hijackOk, respLog, upConn, upErr, stream, wbuf, werr,
                 writes, dst, wleft,
                 writers, mu>>

\* what the model keeps of a Write call; after: the Read calls made so far
WriteRecord(p, r, out0) ==
  [len |-> Len(p), n |-> r.n, err |-> r.err, step |-> r.step,
   out0 |-> Len(out0), after |-> Len(reads)]

\* main.go:45: conn.Write(buffer[:n]); its results are not looked at
LoopWrite ==
  /\ pc = "write"
  /\ \E r \in {Write([buf |-> wbuf, err |-> werr, out |-> out, left |-> wleft], src)} :
       /\ wbuf' = r.w.buf
       /\ werr' = r.w.err
       /\ out' = r.w.out
       /\ wleft' = r.w.left
       /\ writes' = Append(writes, WriteRecord(src, r, out))
  /\ pc' = "read"
  /\ UNCHANGED <<req, hijackOk, respLog, upConn, upErr, buffer, stream, inp,
                 src, reads, closed, dst, shortLeft,
                 writers, mu>>

Next ==
  \/ CallUpgrade
  \/ HandlerError
  \/ HandlerConnected
  \/ ClientSends
  \/ LoopRead
  \/ LoopWrite

Spec == Init /\ [][Next]_vars

-----------------------------------------------------------------------------
(* One frame on an established connection: the loop of the endpoint on a   *)
(* connection whose client sent a single frame of SingleFrames.            *)

InitFrame ==
  /\ pc = "read"
  /\ req = [connection |-> "Upgrade", upgrade |-> "websocket",
            version |-> "13", key |-> Key1]
  /\ hijackOk = TRUE
  /\ respLog = Respond101(req)
  /\ upConn = TRUE
  /\ upErr = ErrNil
  /\ Fresh
  /\ \E f \in SingleFrames :
       /\ stream = <<f>>
       /\ inp = f.bytes
  /\ dst \in 1..MaxDst
  /\ shortLeft \in 0..MaxShort
  /\ wleft = -1

NextFrame ==
  \/ LoopRead
  \/ LoopWrite

SpecFrame == InitFrame /\ [][NextFrame]_vars

-----------------------------------------------------------------------------
(* Write as an API: a caller makes up to MaxWrites calls of Write on an    *)
(* established connection, with payloads whose lengths lie on both sides   *)
(* of the two thresholds of getDataFrame; then what the transport accepted *)
(* of a first successful call is handed, as a client's bytes, to Read on a *)
(* fresh connection over a transport that delivers every read in full.     *)

WriteLens == {0, 1, 125, 126, 65535, 65536}

InitWrite ==
  /\ pc = "api"
  /\ req = [connection |-> "Upgrade", upgrade |-> "websocket",
            version |-> "13", key |-> Key1]
  /\ hijackOk = TRUE
  /\ respLog = Respond101(req)
  /\ upConn = TRUE
  /\ upErr = ErrNil
  /\ Fresh
  /\ stream = <<>>
  /\ inp = <<>>
  /\ dst = 0
  /\ shortLeft = 0
  /\ wleft \in {-1, 0, 1, 2}

\* c.Write(p) with p of one of the lengths of WriteLens
APIWrite ==
  /\ pc = "api"
  /\ Len(writes) < MaxWrites
  /\ \E l \in WriteLens : \E p \in {Pattern(l)} :
       \E r \in {Write([buf |-> wbuf, err |-> werr, out |-> out, left |-> wleft], p)} :
           /\ src' = p
           /\ wbuf' = r.w.buf
           /\ werr' = r.w.err
           /\ out' = r.w.out
           /\ wleft' = r.w.left
           /\ writes' = Append(writes, WriteRecord(p, r, out))
  /\ UNCHANGED <<pc, req, hijackOk, respLog, upConn, upErr, buffer, stream,
                 inp, reads, closed, dst, shortLeft,
                 writers, mu>>

\* c.Read(p), len(p) >= len(src), over the bytes of the one Write made
APILoopback ==
  /\ pc = "api"
  /\ Len(writes) = 1
  /\ writes[1].err = ErrNil
  /\ \E D \in {Len(src), Len(src) + 1} : \E o \in Read(buffer, out, D, shortLeft) :
       /\ dst' = D
       /\ buffer' = o.buffer
       /\ inp' = o.inp
       /\ shortLeft' = o.budget
       /\ reads' = Append(reads, ReadRecord(D, o, buffer, out))
  /\ pc' = "looped"
  /\ UNCHANGED <<req, hijackOk, respLog, upConn, upErr, stream, wbuf, werr,
                 out, src, writes, closed, wleft,
                 writers, mu>>

NextWrite ==
  \/ APIWrite
  \/ APILoopback

SpecWrite == InitWrite /\ [][NextWrite]_vars

-----------------------------------------------------------------------------
(* The lifecycle of a connection in the hands of an API caller: Read calls  *)
(* and one Close, in any order, on an established connection whose client  *)
(* sent one or two text frames.  Close is c.conn.Close() and nothing else:  *)
(* afterwards the bufio.Reader of c.rw still serves the bytes it had        *)
(* buffered, any prefix of what the client sent, and then fails.            *)

LifeFrames ==
  { ClientFrame(opCodeText, TRUE, 7, l, SampleKey, FALSE) : l \in 0..MaxPayload }

LifeStreams ==
  { <<f>> : f \in LifeFrames } \cup { <<f, g>> : f \in LifeFrames, g \in LifeFrames }

InitLife ==
  /\ pc = "life"
  /\ req = [connection |-> "Upgrade", upgrade |-> "websocket",
            version |-> "13", key |-> Key1]
  /\ hijackOk = TRUE
  /\ respLog = Respond101(req)
  /\ upConn = TRUE
  /\ upErr = ErrNil
  /\ Fresh
  /\ \E fs \in LifeStreams :
       /\ stream = fs
       /\ inp = Wire(fs)
  /\ dst \in 1..MaxDst
  /\ shortLeft \in 0..MaxShort
  /\ wleft = -1

\* the error of a transport read: after Close the connection reports that
\* it is closed where an open one reports the end of the client's bytes
TReadErr(err) == IF closed > 0 /\ err = ErrEOF THEN ErrNetClosed ELSE err

\* c.Read(p) by the API caller, before or after Close
LifeRead ==
  /\ pc = "life"
  /\ Len(reads) < MaxCalls
  /\ \E o \in Read(buffer, inp, dst, shortLeft) :
       /\ buffer' = o.buffer
       /\ inp' = o.inp
       /\ shortLeft' = o.budget
       /\ reads' = Append(reads,
                     ReadRecord(dst, [o EXCEPT !.err = TReadErr(o.err)], buffer, inp))
  /\ UNCHANGED <<pc, req, hijackOk, respLog, upConn, upErr, stream, wbuf,
                 werr, out, src, writes, closed, dst, wleft, writers, mu>>

\* c.buffer across c.Close(): lines 196-198 do not touch it
CloseBuffer(buf) == buf

\* c.Close() by the API caller
LifeClose ==
  /\ pc = "life"
  /\ closed = 0
  /\ closed' = Close(closed)
  /\ buffer' = CloseBuffer(buffer)
  /\ \E k \in 0..Len(inp) : inp' = Take(inp, k)
  /\ UNCHANGED <<pc, req, hijackOk, respLog, upConn, upErr, stream, wbuf,
                 werr, out, src, reads, writes, dst, shortLeft, wleft,
                 writers, mu>>

NextLife ==
  \/ LifeRead
  \/ LifeClose

SpecLife == InitLife /\ [][NextLife]_vars

-----------------------------------------------------------------------------
(* Two goroutines that call Write on one connection.  connImpl has no lock: *)
(* the three calls Write makes on c.rw are steps of their own, interleaved  *)
(* here at the grain of these calls.  The callers either share a mutex that *)
(* they hold around Write (mu is "free" or names the holder) or use none.   *)
(* A writer is [p, step, seq, n, err]: step 0 before the call, 1..3 before  *)
(* the header write, the payload write and the flush, 4 after the return;   *)
(* seq is the rank of the call among the calls begun.                       *)

\* the first n letters 'a', 'b', ... as payload bytes
Lower(n) == [i \in 1..n |-> 97 + ((i - 1) % 26)]

Holder(i) == IF i = 1 THEN "g1" ELSE "g2"

InitConc ==
  /\ pc = "conc"
  /\ req = [connection |-> "Upgrade", upgrade |-> "websocket",
            version |-> "13", key |-> Key1]
  /\ hijackOk = TRUE
  /\ respLog = Respond101(req)
  /\ upConn = TRUE
  /\ upErr = ErrNil
  /\ buffer = <<>>
  /\ wbuf = <<>>
  /\ werr = ErrNil
  /\ out = <<>>
  /\ src = <<>>
  /\ reads = <<>>
  /\ writes = <<>>
  /\ closed = 0
  /\ stream = <<>>
  /\ inp = <<>>
  /\ dst = 0
  /\ shortLeft = 0
  /\ wleft \in {-1, 0, 1, 2}
  /\ mu \in {"none", "free"}
  /\ \E l1 \in 0..MaxPayload : \E l2 \in 0..MaxPayload :
       writers = << [p |-> Pattern(l1), step |-> 0, seq |-> 0, n |-> 0, err |-> ErrNil],
                    [p |-> Lower(l2), step |-> 0, seq |-> 0, n |-> 0, err |-> ErrNil] >>

\* the bufio.Writer and the transport as a writer state
Writer == [buf |-> wbuf, err |-> werr, out |-> out, left |-> wleft]

\* the mutex after writer i has returned from Write
Unlock(i) == IF mu = Holder(i) THEN "free" ELSE mu

\* goroutine i takes the mutex, if the callers use one, and enters Write
ConcCall(i) ==
  /\ pc = "conc"
  /\ writers[i].step = 0
  /\ mu \in {"none", "free"}
  /\ mu' = IF mu = "free" THEN Holder(i) ELSE mu
  /\ writers' = [writers EXCEPT ![i].step = 1,
                   ![i].seq = 1 + Cardinality({j \in 1..Len(writers) : writers[j].seq > 0})]
  /\ UNCHANGED <<pc, req, hijackOk, respLog, upConn, upErr, buffer, stream,
                 inp, wbuf, werr, out, src, reads, writes, closed, dst,
                 shortLeft, wleft>>

\* lines 87-93: frame := getDataFrame(len(p)); c.rw.Write(frame)
ConcHeader(i) ==
  /\ pc = "conc"
  /\ writers[i].step = 1
  /\ \E r \in {WriteHeaderStep(Writer, writers[i].p)} :
       /\ wbuf' = r.w.buf
       /\ werr' = r.w.err
       /\ out' = r.w.out
       /\ wleft' = r.w.left
       /\ IF r.err # ErrNil
          THEN /\ writers' = [writers EXCEPT ![i].step = 4, ![i].n = 0, ![i].err = r.err]
               /\ mu' = Unlock(i)
          ELSE /\ writers' = [writers EXCEPT ![i].step = 2]
               /\ mu' = mu
  /\ UNCHANGED <<pc, req, hijackOk, respLog, upConn, upErr, buffer, stream,
                 inp, src, reads, writes, closed, dst, shortLeft>>

\* lines 95-99: n, err := c.rw.Write(p)
ConcPayload(i) ==
  /\ pc = "conc"
  /\ writers[i].step = 2
  /\ \E r \in {WritePayloadStep(Writer, writers[i].p)} :
       /\ wbuf' = r.w.buf
       /\ werr' = r.w.err
       /\ out' = r.w.out
       /\ wleft' = r.w.left
       /\ IF r.err # ErrNil
          THEN /\ writers' = [writers EXCEPT ![i].step = 4, ![i].n = 0, ![i].err = r.err]
               /\ mu' = Unlock(i)
          ELSE /\ writers' = [writers EXCEPT ![i].step = 3, ![i].n = r.n]
               /\ mu' = mu
  /\ UNCHANGED <<pc, req, hijackOk, respLog, upConn, upErr, buffer, stream,
                 inp, src, reads, writes, closed, dst, shortLeft>>

\* lines 101-103: err = c.rw.Flush(); return n, err
ConcFlush(i) ==
  /\ pc = "conc"
  /\ writers[i].step = 3
  /\ \E f \in {WriteFlushStep(Writer)} :
       /\ wbuf' = f.buf
       /\ werr' = f.err
       /\ out' = f.out
       /\ wleft' = f.left
       /\ writers' = [writers EXCEPT ![i].step = 4, ![i].err = f.err]
  /\ mu' = Unlock(i)
  /\ UNCHANGED <<pc, req, hijackOk, respLog, upConn, upErr, buffer, stream,
                 inp, src, reads, writes, closed, dst, shortLeft>>

NextConc ==
  \E i \in 1..2 :
    \/ ConcCall(i)
    \/ ConcHeader(i)
    \/ ConcPayload(i)
    \/ ConcFlush(i)

SpecConc == InitConc /\ [][NextConc]_vars

-----------------------------------------------------------------------------
(* Properties *)

\* n as the length field of a frame header, as the wire format defines it
LengthField(n) ==
  IF n <= 125 THEN <<n>>
  ELSE IF n <= 65535 THEN <<126>> \o BigEndian(n, 2)
  ELSE <<127>> \o BigEndian(n, 8)

\* the bytes the i-th Write call put on the transport
Written(i) ==
  SubSeq(out, writes[i].out0 + 1,
         IF i < Len(writes) THEN writes[i + 1].out0 ELSE Len(out))

\* C1 (as claimed): round trip.  When the bytes a successful Write(src) put
\* on a transport are the input of Read on a connection over that transport,
\* with a destination at least as long as src, Read returns exactly the
\* bytes of src and a nil error, for the lengths 0, 1, 125, 126, 65535, 65536.
C1_RoundTrip ==
  pc = "looped" =>
    /\ reads[1].err = ErrNil
    /\ reads[1].n = Len(src)
    /\ reads[1].data = src

\* C2: the bytes a successful Write puts on the transport are 0x81, the
\* length field (len, or 126 and 2 big-endian bytes, or 127 and 8 big-endian
\* bytes) and the payload unchanged, with no mask key, whatever the payload.
C2_WireFormat ==
  \A i \in 1..Len(writes) :
    writes[i].err = ErrNil =>
      Written(i) = <<129>> \o LengthField(writes[i].len) \o Pattern(writes[i].len)

\* a Write of a payload of each width succeeded
C2_Witness ==
  /\ Len(writes) = 2
  /\ writes[1].len = 126 /\ writes[1].err = ErrNil
  /\ writes[2].len = 65536 /\ writes[2].err = ErrNil
  /\ writes[2].n = 65536

\* the first frame the client sent
First == stream[1]

\* c.buffer after the i-th Read call
BufferAfter(i) == IF i < Len(reads) THEN reads[i + 1].buffer0 ELSE buffer

\* a masked text or binary frame with a non-empty payload
DataFrame(f) == f.op \in DataOps /\ f.key # <<>> /\ ~f.top

\* C3 (as claimed): partial-read reconstruction.  A single masked text or
\* binary frame with L > 0 payload bytes, read through buffers of D bytes,
\* is returned by exactly ceil(L/D) Read calls: call i returns bytes
\* (i-1)D+1 .. min(iD, L) of the payload and a nil error, and no later call
\* returns data.
C3_PartialReads ==
  (Len(stream) = 1 /\ DataFrame(First) /\ First.len > 0) =>
    LET L == First.len
        K == (L + dst - 1) \div dst
    IN  \A i \in 1..Len(reads) :
          IF i <= K
          THEN /\ reads[i].err = ErrNil
               /\ reads[i].n = Min(dst, L - (i - 1) * dst)
               /\ reads[i].data = SubSeq(First.payload, (i - 1) * dst + 1, Min(i * dst, L))
          ELSE reads[i].n = 0 /\ reads[i].err # ErrNil

\* C3 holds of the calls the transport served without a short read: the
\* partial-read logic is right and the claim fails on short reads alone
C3_WhenDeliveredWhole ==
  (Len(stream) = 1 /\ DataFrame(First) /\ First.len > 0
   /\ \A i \in 1..Len(reads) : ~reads[i].short) =>
    LET L == First.len
        K == (L + dst - 1) \div dst
    IN  \A i \in 1..Len(reads) :
          IF i <= K
          THEN /\ reads[i].err = ErrNil
               /\ reads[i].data = SubSeq(First.payload, (i - 1) * dst + 1, Min(i * dst, L))
          ELSE reads[i].n = 0 /\ reads[i].err # ErrNil

\* the number of payload bytes the calls j..Len(reads) handed out
RECURSIVE Handed(_)
Handed(j) == IF j > Len(reads) THEN 0 ELSE reads[j].n + Handed(j + 1)

\* C4: while the leftover buffer is non-empty a Read call reads nothing
\* from the transport and parses no header: it returns the first
\* min(len(p), len(buffer)) leftover bytes and keeps the rest.  A header is
\* parsed only by a call that found the buffer empty; such a call returns
\* bytes of the one data frame it decoded; and the buffer is always what is
\* left of the payload of the data frame decoded last.
C4_LeftoverFirst ==
  /\ \A i \in 1..Len(reads) :
       LET r == reads[i] IN
       /\ r.buffer0 # <<>> =>
            /\ r.inp1 = r.inp0
            /\ r.hdrs = 0
            /\ r.err = ErrNil
            /\ r.n = Min(r.D, Len(r.buffer0))
            /\ r.data = SubSeq(r.buffer0, 1, r.n)
            /\ BufferAfter(i) = SubSeq(r.buffer0, r.n + 1, Len(r.buffer0))
       /\ r.hdrs > 0 => r.buffer0 = <<>>
       /\ (r.buffer0 = <<>> /\ r.err = ErrNil) =>
            /\ r.data = SubSeq(r.payload, 1, r.n)
            /\ BufferAfter(i) = SubSeq(r.payload, r.n + 1, Len(r.payload))
  /\ buffer # <<>> =>
       \E j \in 1..Len(reads) :
         /\ reads[j].hdrs > 0
         /\ \A k \in (j + 1)..Len(reads) : reads[k].hdrs = 0
         /\ buffer = SubSeq(reads[j].payload, Handed(j) + 1, Len(reads[j].payload))

\* a call served the leftover of a frame into a buffer larger than it, and
\* the next call went on to the next frame
C4_Witness ==
  /\ Len(stream) = 2
  /\ Len(reads) = 3
  /\ reads[2].buffer0 # <<>>
  /\ reads[2].D > Len(reads[2].buffer0)
  /\ reads[2].n = Len(reads[2].buffer0)
  /\ reads[3].hdrs > 0
  /\ reads[3].err = ErrNil
  /\ reads[3].data = stream[2].payload

\* C5 (as claimed): a ping or pong frame followed by a text or binary frame.
\* The Read call that meets the ping consumes it whole, writes nothing to
\* the transport and returns the unmasked payload of the frame that follows
\* (here for the calls the transport served without a short read).
C5_PingSkipped ==
  (/\ Len(stream) = 2
   /\ First.op \in {opCodePing, opCodePong}
   /\ DataFrame(stream[2])
   /\ reads # <<>>
   /\ ~reads[1].short) =>
      /\ reads[1].err = ErrNil
      /\ reads[1].reply = <<>>
      /\ reads[1].data = SubSeq(stream[2].payload, 1, Min(dst, stream[2].len))
      /\ reads[1].inp1 = <<>>

\* C6: a header whose opcode is none of text, binary, close, ping, pong
\* makes Read return 0 and the "unknown opcode" error; nothing is copied to
\* the destination, the leftover buffer stays empty, nothing is echoed.
C6_UnknownOpcode ==
  /\ \A i \in 1..Len(reads) :
       (reads[i].op \in OtherOps) =>
          /\ reads[i].err = ErrUnknownOpcode
          /\ reads[i].n = 0
          /\ reads[i].data = <<>>
          /\ reads[i].payload = <<>>
          /\ BufferAfter(i) = <<>>
          /\ i = Len(reads)
  /\ (stream # <<>> /\ reads # <<>> /\ First.op \in OtherOps) =>
       /\ reads[1].op = First.op
       /\ reads[1].err = ErrUnknownOpcode
       /\ writes = <<>>
       /\ out = <<>>

\* Read met a frame of the reserved opcode 0x3
C6_Witness ==
  /\ stream # <<>>
  /\ First.op = 3
  /\ Len(reads) = 1
  /\ reads[1].op = 3
  /\ reads[1].err = ErrUnknownOpcode

\* C7: a header with the close opcode makes Read return 0 and the
\* "connection closed" error, which is neither the "unknown opcode" error
\* nor a transport error; Read writes nothing to the transport.
C7_CloseOpcode ==
  /\ ErrClosed \notin {ErrNil, ErrUnknownOpcode, ErrEOF, ErrIO}
  /\ \A i \in 1..Len(reads) :
       /\ reads[i].reply = <<>>
       /\ (reads[i].op = opCodeClose) =>
            /\ reads[i].err = ErrClosed
            /\ reads[i].n = 0
            /\ reads[i].data = <<>>
       /\ (reads[i].err = ErrClosed) => reads[i].op = opCodeClose
  /\ (stream # <<>> /\ reads # <<>> /\ First.op = opCodeClose) =>
       /\ reads[1].err = ErrClosed
       /\ out = <<>>

\* Read met a close frame
C7_Witness ==
  /\ stream # <<>>
  /\ First.op = opCodeClose
  /\ Len(reads) = 1
  /\ reads[1].err = ErrClosed
  /\ pc = "done"

\* the four preconditions of the handshake, in the order of the contract
ConnectionOk == req.connection = "Upgrade"
UpgradeOk == req.upgrade = "websocket"
VersionOk == req.version = "13"
KeyOk == req.key # ""
AllOk == ConnectionOk /\ UpgradeOk /\ VersionOk /\ KeyOk

\* the error of the first precondition that fails
FirstFailure ==
  IF ~ConnectionOk THEN "missing 'connection' header"
  ELSE IF ~UpgradeOk THEN "missing 'upgrade' header"
  ELSE IF ~VersionOk THEN "invalid version"
  ELSE "missing 'sec-websocket-key' header"

ValidationErrors ==
  { "missing 'connection' header", "missing 'upgrade' header",
    "invalid version", "missing 'sec-websocket-key' header" }

\* Upgrade has returned
Returned == pc # "request"

\* the places of event e in the response log
Places(e) == { i \in 1..Len(respLog) : respLog[i] = e }

\* C8 (as claimed): Upgrade fails iff at least one of the four preconditions
\* fails, with the error of the first one that fails, the four errors being
\* pairwise distinct.
C8_FailsIffInvalid ==
  Returned =>
    /\ (upErr # ErrNil) <=> ~AllOk
    /\ ~AllOk => upErr = FirstFailure
    /\ Cardinality(ValidationErrors) = 4

\* C8 (amended): Upgrade returns one of the four validation errors iff at
\* least one precondition fails, and then the one of the first that fails,
\* the four being pairwise distinct; when all four hold it fails only if
\* the transport cannot be detached, with the error of the detach.
C8_ValidationOrder ==
  Returned =>
    /\ (upErr \in ValidationErrors) <=> ~AllOk
    /\ ~AllOk => upErr = FirstFailure
    /\ Cardinality(ValidationErrors) = 4
    /\ AllOk => (upErr # ErrNil <=> ~hijackOk)
    /\ (AllOk /\ ~hijackOk) => upErr = ErrHijack

\* Upgrade returned on a request whose version and key are both invalid
C8_Witness ==
  /\ pc = "upgraded"
  /\ ConnectionOk /\ UpgradeOk /\ ~VersionOk /\ ~KeyOk
  /\ upErr = "invalid version"

\* C9: when a precondition fails Upgrade returns no connection and an error
\* and has done nothing to the response (no header, no status, no byte, no
\* detach); the handler then answers 400 with the error's message as body.
C9_RejectLeavesResponse ==
  (Returned /\ ~AllOk) =>
    /\ ~upConn
    /\ upErr # ErrNil
    /\ pc = "upgraded" => respLog = <<>>
    /\ pc \notin {"read", "write"}
    /\ pc = "done" =>
         /\ \A i \in 1..Len(respLog) :
              /\ respLog[i][1] # "Hijack"
              /\ respLog[i][1] = "WriteHeader" => respLog[i][2] = 400
              /\ respLog[i][1] = "Header.Set" =>
                   respLog[i][2] \notin {"Upgrade", "Connection", "Sec-WebSocket-Accept"}
         /\ Cardinality(Places(<<"WriteHeader", 400>>)) = 1
         /\ Places(<<"Write", upErr \o "\n">>) = {Len(respLog)}
    /\ reads = <<>> /\ writes = <<>> /\ closed = 0

\* the handler answered a request without key
C9_Witness ==
  /\ pc = "done"
  /\ ConnectionOk /\ UpgradeOk /\ VersionOk /\ ~KeyOk
  /\ respLog # <<>>

\* the accept keys of the two request keys of the model
AcceptOf(key) ==
  IF key = "dGhlIHNhbXBsZSBub25jZQ==" THEN "s3pPLMBiTxaQ9kYGzzhZRbK+xOo="
  ELSE "HSmrc0sMlYUkAGmm5OPpG2HaGWk="

\* headers, then status 101, then the detach, as far as Upgrade got
OrderedResponse ==
  /\ Len(respLog) >= 5
  /\ { respLog[i] : i \in 1..3 } =
       { <<"Header.Set", "Upgrade", "websocket">>,
         <<"Header.Set", "Connection", "Upgrade">>,
         <<"Header.Set", "Sec-WebSocket-Accept", AcceptOf(req.key)>> }
  /\ respLog[4] = <<"WriteHeader", 101>>
  /\ respLog[5][1] = "Hijack"

\* C10 (as claimed): when all four preconditions hold Upgrade sets the three
\* headers, then writes status 101, then detaches the transport, and returns
\* a Connection with an empty leftover buffer; a Connection is returned on
\* this path only, and exactly one of (connection, error) is non-nil.
C10_AlwaysConnects ==
  Returned =>
    /\ AllOk => (upConn /\ OrderedResponse /\ respLog[5] = <<"Hijack", TRUE>>)
    /\ upConn => AllOk
    /\ upConn <=> (upErr = ErrNil)
    /\ (upConn /\ pc = "upgraded") => buffer = <<>>

\* C10 (amended): when all four preconditions hold Upgrade sets the three
\* headers, then writes status 101, then attempts the detach; if the detach
\* succeeds it returns a Connection with an empty leftover buffer, and if it
\* fails it returns the detach's error and no Connection.  A Connection is
\* returned on the successful path only, and exactly one of (connection,
\* error) is non-nil.
C10_ConnectsWhenDetached ==
  Returned =>
    /\ AllOk => (OrderedResponse /\ respLog[5] = <<"Hijack", hijackOk>>)
    /\ (AllOk /\ hijackOk) => upConn
    /\ (AllOk /\ ~hijackOk) => (~upConn /\ upErr = ErrHijack)
    /\ upConn => (AllOk /\ hijackOk /\ Len(respLog) = 5)
    /\ upConn <=> (upErr = ErrNil)
    /\ (upConn /\ pc = "upgraded") => buffer = <<>>

\* Upgrade returned a Connection for the second key
C10_Witness ==
  /\ pc = "upgraded"
  /\ upConn
  /\ req.key = "x3JJHMbDL1EzLkh9GBhXDw=="
  /\ respLog[3] = <<"Header.Set", "Sec-WebSocket-Accept", "HSmrc0sMlYUkAGmm5OPpG2HaGWk=">>


\* the header bytes of the i-th Write call's frame
HeaderLen(i) == 1 + Len(LengthField(writes[i].len))

\* the payload bytes of the i-th Write call the transport accepted
AcceptedPayload(i) ==
  IF Len(Written(i)) > HeaderLen(i) THEN Len(Written(i)) - HeaderLen(i) ELSE 0

\* C11 (as claimed): Write puts the header before the payload and returns
\* the payload bytes accepted, never counting the header: (len(src), nil) when
\* every step succeeds, and the I/O error with a count not larger than the
\* payload bytes the transport accepted when a transport write or the flush
\* fails.
C11_WriteCount ==
  \A i \in 1..Len(writes) :
    LET frame == <<129>> \o LengthField(writes[i].len) \o Pattern(writes[i].len) IN
    /\ Written(i) = SubSeq(frame, 1, Len(Written(i)))
    /\ writes[i].err = ErrNil =>
         /\ writes[i].n = writes[i].len
         /\ Written(i) = frame
    /\ writes[i].err # ErrNil =>
         /\ writes[i].err = ErrIO
         /\ writes[i].n <= AcceptedPayload(i)

\* the handler has returned
HandlerReturned == pc = "done"

\* C12: Close is called on the transport on every way out of the loop.  When
\* the handler of an upgraded connection has returned, which it does after
\* Read failed with a transport error, the close error or the unknown-opcode
\* error (or panicked), Close has been called on the connection, once, and
\* not before the loop was left; it is never called when Upgrade failed.
C12_ClosedOnExit ==
  /\ (HandlerReturned /\ upConn) =>
       /\ closed = 1
       /\ reads # <<>>
       /\ reads[Len(reads)].err # ErrNil
  /\ ~HandlerReturned => closed = 0
  /\ ~upConn => closed = 0

\* the handler returned after Read met an unknown opcode as its second frame
C12_Witness ==
  /\ HandlerReturned
  /\ upConn
  /\ closed = 1
  /\ Len(reads) >= 2
  /\ reads[Len(reads)].err = ErrUnknownOpcode

\* C13 (as claimed): every failure is terminal.  A Read that returned an
\* error is the last operation on the connection and the handler has then
\* returned and closed it; after a Write that returned an error the loop
\* makes no further Read and no further Write.
C13_FailureTerminal ==
  /\ \A i \in 1..Len(reads) :
       reads[i].err # ErrNil =>
         /\ i = Len(reads)
         /\ \A j \in 1..Len(writes) : writes[j].after < i
         /\ pc = "done"
         /\ closed = 1
  /\ \A j \in 1..Len(writes) :
       writes[j].err # ErrNil =>
         /\ j = Len(writes)
         /\ Len(reads) = writes[j].after

\* C14 (as claimed): Close discards the leftover buffer.  When Close has
\* returned and no Read was made since, the leftover buffer is empty; and a
\* Read call made after Close that is served from the leftover buffer is
\* served bytes of a frame whose header was parsed after Close, never bytes
\* of a frame decoded before it.
C14_CloseDiscards ==
  /\ (closed > 0 /\ \A i \in 1..Len(reads) : reads[i].closed0 = 0) => buffer = <<>>
  /\ \A i \in 1..Len(reads) :
       (reads[i].closed0 > 0 /\ reads[i].buffer0 # <<>>) =>
          \E j \in 1..(i - 1) : reads[j].hdrs > 0 /\ reads[j].closed0 > 0

\* the payload length Read computes from the header bytes h of a data frame
DecodedLength(h) ==
  LET len7 == BitAnd(h[2], 127) IN
  IF len7 = 126 THEN DecodeLen16(SubSeq(h, 3, 4))
  ELSE IF len7 = 127 THEN DecodeLen64(SubSeq(h, 3, 10))
  ELSE len7

\* what a first Read call can return and decode, with the destination and
\* the transport of the current state, when the client's frame carries its
\* length in a field of width w
ResultsAtWidth(w) ==
  { <<o.n, o.err, o.data, o.payload>> :
      o \in Read(<<>>,
                 ClientFrame(First.op, First.fin, w, First.len, First.key, FALSE).bytes,
                 dst, reads[1].budget0) }

\* C15: length decoding does not depend on the width of the length field.
\* The count, the error, the bytes and the payload slice the first Read call
\* obtains from a masked text or binary frame are obtained as well from the
\* frames that carry the same length as 7-bit literal, as 126 and 2 bytes, and
\* as 127 and 8 bytes; when the transport delivered the call's reads in full
\* they are the frame's length and payload.  The 2-byte and 8-byte decodings
\* return n for the big-endian encodings of n, and the length decoded from
\* the header getDataFrame emits for n is n, on both sides of 125 and 65535.
C15_WidthIndependent ==
  /\ \A n \in WriteLens \cup (0..MaxPayload) :
       /\ DecodedLength(getDataFrame(n)) = n
       /\ DecodeLen64(BigEndian(n, 8)) = n
       /\ n <= 65535 => DecodeLen16(BigEndian(n, 2)) = n
  /\ (Len(stream) = 1 /\ DataFrame(First) /\ reads # <<>>) =>
       LET r == reads[1] IN
       /\ \A w \in {7, 16, 64} : <<r.n, r.err, r.data, r.payload>> \in ResultsAtWidth(w)
       /\ ~r.short =>
            /\ r.err = ErrNil
            /\ r.n = Min(dst, First.len)
            /\ r.payload = First.payload

\* Read decoded a frame whose length of 2 or more came in the 8-byte field
C15_Witness ==
  /\ Len(stream) = 1
  /\ DataFrame(First)
  /\ First.width = 64
  /\ First.len >= 2
  /\ Len(reads) = 1
  /\ reads[1].err = ErrNil
  /\ reads[1].payload = First.payload

\* the payload bytes of the client's frame f as they are on the wire
WirePayload(f) == SubSeq(f.bytes, Len(f.bytes) - f.len + 1, Len(f.bytes))

\* b XORed with key[i mod 4] at each index i (from 0)
XorCycled(b, key) == [i \in 1..Len(b) |-> BitXor(b[i], key[((i - 1) % 4) + 1])]

\* C16 (as claimed): masking involution.  Unmasking what the client masked
\* with the same key gives the payload back, for the payload of every frame
\* of the model (length 0, lengths below 4, a length above 4 that is no
\* multiple of 4) and both keys;
\* and the payload Read decodes from a masked text or binary frame is the
\* frame's wire payload XORed with key[i mod 4] at each index i.
C16_MaskInvolution ==
  /\ stream # <<>> =>
       \A key \in {ZeroKey, SampleKey} :
         /\ Unmask(Mask(First.payload, key), key) = First.payload
         /\ Unmask(Unmask(First.payload, key), key) = First.payload
  /\ (Len(stream) = 1 /\ DataFrame(First) /\ reads # <<>>) =>
       /\ reads[1].err = ErrNil
       /\ reads[1].payload = XorCycled(WirePayload(First), First.key)
       /\ reads[1].data = Take(XorCycled(WirePayload(First), First.key), reads[1].n)

\* C16 holds of the calls the transport served without a short read
C16_WhenDeliveredWhole ==
  /\ stream # <<>> =>
       \A key \in {ZeroKey, SampleKey} :
         /\ Unmask(Mask(First.payload, key), key) = First.payload
         /\ Unmask(Unmask(First.payload, key), key) = First.payload
  /\ (Len(stream) = 1 /\ DataFrame(First) /\ reads # <<>> /\ ~reads[1].short) =>
       /\ reads[1].err = ErrNil
       /\ reads[1].payload = XorCycled(WirePayload(First), First.key)
       /\ reads[1].data = Take(XorCycled(WirePayload(First), First.key), reads[1].n)

\* the bytes of the client's frame f before its payload: header, extended
\* length and mask key
FieldBytes(f) == Len(f.bytes) - f.len

\* C17 (as claimed): Read consumes exactly the bytes of each field however
\* the transport splits them over its reads.  The Read call that meets a
\* masked text or binary frame takes from the transport the 2 header bytes,
\* the 0, 2 or 8 length bytes, the 4 key bytes and the payloadLength payload
\* bytes, that is the whole frame and nothing more, so that the next header
\* starts at the first byte after the payload; and what it decodes is the
\* frame's payload.
C17_ExactFields ==
  (stream # <<>> /\ DataFrame(First) /\ reads # <<>>) =>
    /\ reads[1].err = ErrNil
    /\ Len(reads[1].inp0) - Len(reads[1].inp1) = FieldBytes(First) + First.len
    /\ reads[1].inp1 = Wire(Tail(stream))
    /\ reads[1].payload = First.payload

\* the frame Write is to put on the transport for payload p
FrameOf(p) == <<129>> \o LengthField(Len(p)) \o p

\* the frames of the Write calls begun, in the order the calls began
RECURSIVE FramesFrom(_)
FramesFrom(k) ==
  IF k > Len(writers) THEN <<>>
  ELSE LET S == { j \in 1..Len(writers) : writers[j].seq = k } IN
       IF S = {} THEN <<>>
       ELSE FrameOf(writers[CHOOSE j \in S : TRUE].p) \o FramesFrom(k + 1)

IsPrefix(s, t) == Len(s) <= Len(t) /\ s = SubSeq(t, 1, Len(s))

\* s is a concatenation of frames as Write builds them (lengths up to 125)
RECURSIVE WellFormed(_)
WellFormed(s) ==
  \/ s = <<>>
  \/ /\ Len(s) >= 2
     /\ s[1] = 129
     /\ s[2] <= 125
     /\ Len(s) >= 2 + s[2]
     /\ WellFormed(SubSeq(s, 3 + s[2], Len(s)))

\* every writer has returned from Write, with a nil error
AllWritten ==
  \A j \in 1..Len(writers) : writers[j].step = 4 /\ writers[j].err = ErrNil

\* C18: Write is three separate steps on the shared c.rw and takes no lock.
\* When the callers hold a mutex around Write, at most one of them is inside
\* Write, the bytes handed to c.rw are at all times a prefix of header1
\* payload1 header2 payload2 in the order the calls began, and when all
\* calls have returned nil the transport holds exactly these frames; a call
\* made alone on a healthy transport does what Write does in one piece.
\* Without the mutex every call still returns len(p) on success and what
\* the transport holds has the length of the frames of the calls made, but
\* the order of the bytes is not kept (C18_Witness).
C18_SerializedInOrder ==
  /\ mu # "none" =>
       /\ Cardinality({ j \in 1..Len(writers) : writers[j].step \in 1..3 }) <= 1
       /\ IsPrefix(out \o wbuf, FramesFrom(1))
       /\ AllWritten => (out = FramesFrom(1) /\ wbuf = <<>> /\ WellFormed(out))
       /\ \A j \in 1..Len(writers) :
            (wleft = -1 /\ writers[j].step = 4 /\ writers[j].seq = 1
             /\ \A k \in 1..Len(writers) : k # j => writers[k].step = 0) =>
               LET r == Write([buf |-> <<>>, err |-> ErrNil, out |-> <<>>, left |-> wleft],
                              writers[j].p) IN
               /\ out = r.w.out
               /\ wbuf = r.w.buf
               /\ writers[j].n = r.n
               /\ writers[j].err = r.err
  /\ AllWritten =>
       /\ \A j \in 1..Len(writers) : writers[j].n = Len(writers[j].p)
       /\ Len(out) = Len(FramesFrom(1))

\* two unsynchronized calls have both returned nil and the transport holds
\* header1 header2 payload1 payload2, which is no sequence of frames
C18_Witness ==
  /\ writers # <<>>
  /\ mu = "none"
  /\ AllWritten
  /\ Len(writers[1].p) > 0
  /\ Len(writers[2].p) > 0
  /\ out = getDataFrame(Len(writers[1].p)) \o getDataFrame(Len(writers[2].p))
           \o writers[1].p \o writers[2].p
  /\ ~WellFormed(out)

\* C19 (as claimed): the payload length Read decodes is never negative.  For
\* a text or binary frame whose length comes in the 8-byte field, top bit set
\* or not, or in the 2-byte field, the Read call whose transport reads were
\* delivered in full either returns an error value or delivers the bytes of
\* a payload of the decoded length; it does not fail on a negative length.
C19_NonNegativeLength ==
  (/\ Len(stream) = 1
   /\ First.op \in DataOps
   /\ First.key # <<>>
   /\ First.width \in {16, 64}
   /\ reads # <<>>
   /\ ~reads[1].short) =>
      /\ reads[1].err # Panic
      /\ reads[1].err = ErrNil =>
           /\ Len(reads[1].payload) = First.len
           /\ reads[1].n = Min(dst, First.len)

\* the statuses written to the response so far, in order
RECURSIVE StatusesFrom(_)
StatusesFrom(i) ==
  IF i > Len(respLog) THEN <<>>
  ELSE IF respLog[i][1] = "WriteHeader"
  THEN <<respLog[i][2]>> \o StatusesFrom(i + 1)
  ELSE StatusesFrom(i + 1)

\* C20 (as claimed): at most one response status is written per request,
\* 101 when the connection is upgraded and 400 when Upgrade failed, never
\* both: when Upgrade has returned an error, the error of a failed detach
\* included, it has written no header and no status of the 101 response, and
\* the handler's 400 is the only status of the request.
C20_OneStatus ==
  /\ Len(StatusesFrom(1)) <= 1
  /\ (pc = "upgraded" /\ upErr # ErrNil) => respLog = <<>>
  /\ (Returned /\ upErr = ErrNil) => StatusesFrom(1) = <<101>>
  /\ (pc = "done" /\ upErr # ErrNil) => StatusesFrom(1) = <<400>>
=============================================================================
